---- MODULE Spec2Model ----
(***************************************************************************)
(* Model of the note-import session orchestrator (lib/uploadSessions.js,   *)
(* kept here as src/unnamed/part_000) together with the two handlers of    *)
(* src/server.js that change the published-post directory (create post,    *)
(* delete post).                                                           *)
(*                                                                         *)
(* Encoding.  Titles, slugs, URLs, archive ids, dates and session ids are  *)
(* small integers.  0 is the JavaScript falsy value of each kind (the      *)
(* empty string, null, undefined).  A JavaScript object used as a map is a *)
(* function whose DOMAIN is its key set; an array is a sequence.           *)
(***************************************************************************)
EXTENDS Integers, Sequences, FiniteSets, TLC

(* ------------------------------ bounds --------------------------------- *)
MaxSessions == 1
NumSlugs == 2
NumRandom == 2
NumUrls == 3
NumArchiveIds == 2
NumDates == 1
MaxSuffix == 1
MaxLinks == 1
MaxWorkers == 2

Null == 0

\* the ids requests can name: one more than can be created, so that some id
\* never names a session
SessionIds == 1..(MaxSessions + 1)
Slugs == 1..NumSlugs
\* what slugize(randomId()) can return: 16 hex digits, apart from the slugs of titles
RandomSlugs == (NumSlugs + 1)..(NumSlugs + NumRandom)
AllSlugs == Slugs \cup RandomSlugs
\* titles 1..NumSlugs slugize to the slug of the same number; RespeltTitle is
\* a second spelling of title 1 (same slug); BareTitle is a non-empty title
\* without word characters, which slugizes to ''.  0 is the empty title.
RespeltTitle == NumSlugs + 1
BareTitle == NumSlugs + 2
Titles == 1..BareTitle
Urls == 1..NumUrls
ArchiveIds == 1..NumArchiveIds
Dates == 1..NumDates
Filenames == {1}

(* ------------------------------ helpers -------------------------------- *)
EmptyMap == [x \in {} |-> Null]

Put(f, k, v) == [x \in (DOMAIN f) \cup {k} |-> IF x = k THEN v ELSE f[x]]

Delete(f, k) == [x \in (DOMAIN f) \ {k} |-> f[x]]

Range(s) == {s[i] : i \in DOMAIN s}

SeqsUpTo(S, n) == UNION {[1..k -> S] : k \in 0..n}

(* -------------------------- pure functions ----------------------------- *)
\* identifiers bound in the module scope of part_000: its requires and its
\* top-level const declarations.  normalizeTags is not among them.
ModuleScope ==
  {"path", "fs", "fsp", "crypto", "fm", "slugize", "DEFAULT_TAG",
   "projectRoot", "postsRoot", "sessionsRoot", "ensureDir", "randomId",
   "archiveIdFromUrl", "baseName", "normalizeDate", "formatDate",
   "folderFromDateSlug", "permalinkFromDateSlug", "readJSON", "writeJSON",
   "buildExistingCache", "findExistingFolder", "slugFromTitle",
   "parseMarkdown", "extractWikiLinks", "extractExternalLinks",
   "sessionPath", "sessionFile", "defaultSession", "loadSession",
   "saveSession", "createSession", "notePath", "archivePath",
   "ensureNoteDependency", "updateNoteDependencies", "addNote", "addArchive",
   "summarizeSession", "getSession", "assertReady", "convertWikiLinks",
   "convertExternalLinks", "permalinkFromFolder", "resolveNoteUrl",
   "commitSession"}

\* a call of normalizeTags(...) in part_000 (lines 191 and 330) evaluates a
\* free identifier: it completes only if the identifier is bound, and raises
\* ReferenceError otherwise
normalizeTagsBound == "normalizeTags" \in ModuleScope

\* md5(url) cut to 10 hex digits: a many-to-one function of the URL
archiveIdFromUrl(url) == ((url - 1) % NumArchiveIds) + 1

\* a filename f stands for "<title f>.md" (filename 0 is ".md"); baseName
\* strips the extension
baseName(filename) == filename

\* hexo-util slugize: many-to-one, '' for a title without word characters
slugize(title) ==
  IF title = Null \/ title = BareTitle THEN Null
  ELSE IF title = RespeltTitle THEN 1
  ELSE title

\* slugize(title || '') || slugize(randomId()); rnd is the random draw
slugFromTitle(title, rnd) == IF slugize(title) # Null THEN slugize(title) ELSE rnd

\* missing or invalid date -> now
normalizeDate(value, now) == IF value = Null THEN now ELSE value

folderFromDateSlug(date, slug) == [date |-> date, slug |-> slug, n |-> 0]

parseMarkdown(content, filename, now, rnd) ==
  LET title == IF content.title # Null THEN content.title ELSE baseName(filename)
  IN [title |-> title,
      date |-> normalizeDate(content.date, now),
      slug |-> IF content.slug # Null THEN content.slug ELSE slugFromTitle(title, rnd),
      derived |-> content.slug = Null,
      body |-> content.body]

\* A body is the sequence of the links of its text, in order of appearance:
\* [wiki |-> t, url |-> Null] is [[t]] and [wiki |-> Null, url |-> u] is
\* [text](u).  rnds[i] is the random draw made for the i-th link.
RECURSIVE wikiScan(_, _, _)
wikiScan(body, rnds, i) ==
  IF i > Len(body) THEN <<>>
  ELSE IF body[i].url # Null THEN wikiScan(body, rnds, i + 1)
  ELSE <<[targetTitle |-> body[i].wiki,
          targetSlug |-> slugFromTitle(body[i].wiki, rnds[i])]>>
         \o wikiScan(body, rnds, i + 1)

\* link targets slugized without { transform: 1 }: the capitals of a title
\* stay, so the second spelling of title 1 gets a slug of its own
extractWikiLinksUntransformed(body, rnds) ==
  LET links == wikiScan(body, rnds, 1)
  IN [i \in DOMAIN links |->
        IF links[i].targetTitle = RespeltTitle
        THEN [links[i] EXCEPT !.targetSlug = 0 - RespeltTitle]
        ELSE links[i]]

extractWikiLinks(body, rnds) == wikiScan(body, rnds, 1)

RECURSIVE externalScan(_, _)
externalScan(body, i) ==
  IF i > Len(body) THEN <<>>
  ELSE IF body[i].url = Null THEN externalScan(body, i + 1)
  ELSE <<body[i].url>> \o externalScan(body, i + 1)

extractExternalLinks(body) == externalScan(body, 1)

(* ------------------------- published-post cache ------------------------ *)
\* A folder of posts/ is [date, slug, n]: "<date>-<slug>" when n = 0 and
\* "<date>-<slug>-<n>" otherwise.  buildExistingCache keys a folder by the
\* text after its third '-', so a suffixed folder is keyed "<slug>-<n>",
\* which is the slug of no title of the model: it is given a negative code.
cacheKey(folder) ==
  IF folder.n = 0 THEN folder.slug ELSE 0 - (folder.slug * (MaxSuffix + 1) + folder.n)

\* the key set of the cache object
buildExistingCache(folders) == {cacheKey(f) : f \in folders}

\* cache[slug] || null, as a truth value
findExistingFolder(cache, slug) == slug \in cache

(* ----------------------------- session store --------------------------- *)
NoSession == [exists |-> FALSE]

defaultSession ==
  [exists |-> TRUE, notes |-> EmptyMap, archives |-> EmptyMap,
   pendingNotes |-> EmptyMap, mainSlug |-> Null]

(* --------------------------- dependency tracker ------------------------ *)
ensureNoteDependency(session, existingCache, sourceSlug, depInfo) ==
  IF depInfo.targetSlug \in DOMAIN session.notes THEN session
  ELSE IF findExistingFolder(existingCache, depInfo.targetSlug) THEN session
  ELSE
    LET t == depInfo.targetSlug
        old == IF t \in DOMAIN session.pendingNotes
               THEN session.pendingNotes[t]
               ELSE [targetTitle |-> depInfo.targetTitle, referencedBy |-> <<>>]
        new == IF sourceSlug \in Range(old.referencedBy)
               THEN old
               ELSE [old EXCEPT !.referencedBy = Append(@, sourceSlug)]
    IN [session EXCEPT !.pendingNotes = Put(@, t, new)]

RECURSIVE wikiLoop(_, _, _, _, _)
wikiLoop(session, slug, wikiLinks, existingCache, i) ==
  IF i > Len(wikiLinks) THEN session
  ELSE
    LET dep == wikiLinks[i]
        s1 == [session EXCEPT !.notes[slug].depNotes = Put(@, dep.targetSlug, dep.targetTitle)]
    IN wikiLoop(ensureNoteDependency(s1, existingCache, slug, dep),
                slug, wikiLinks, existingCache, i + 1)

RECURSIVE externalLoop(_, _, _, _)
externalLoop(session, slug, externalLinks, i) ==
  IF i > Len(externalLinks) THEN session
  ELSE
    LET url == externalLinks[i]
        archiveId == archiveIdFromUrl(url)
        old == IF archiveId \in DOMAIN session.archives
               THEN session.archives[archiveId]
               ELSE [url |-> url, resolved |-> FALSE, filename |-> Null,
                     referencedBy |-> <<>>]
        new == IF slug \in Range(old.referencedBy)
               THEN old
               ELSE [old EXCEPT !.referencedBy = Append(@, slug)]
        s1 == [session EXCEPT !.archives = Put(@, archiveId, new),
                              !.notes[slug].depArchives = @ \cup {archiveId}]
    IN externalLoop(s1, slug, externalLinks, i + 1)

updateNoteDependencies(session, slug, wikiLinks, externalLinks, existingCache) ==
  externalLoop(wikiLoop(session, slug, wikiLinks, existingCache, 1),
               slug, externalLinks, 1)

(* ----------------------------- summarizer ------------------------------ *)
NoSummary ==
  [mainSlug |-> Null, notes |-> EmptyMap, pendingNotes |-> EmptyMap,
   pendingArchives |-> {}, ready |-> FALSE]

summarizeSession(session, existingCache) ==
  LET pendingNotes == session.pendingNotes
      pendingArchives == {id \in DOMAIN session.archives : ~session.archives[id].resolved}
      noteSummaries ==
        [s \in DOMAIN session.notes |->
           [isMain |-> session.notes[s].isMain,
            missingNotes |->
              {dep \in DOMAIN session.notes[s].depNotes :
                 dep \notin DOMAIN session.notes /\ ~findExistingFolder(existingCache, dep)},
            missingArchives |->
              {id \in session.notes[s].depArchives :
                 id \notin DOMAIN session.archives \/ ~session.archives[id].resolved}]]
  IN [mainSlug |-> session.mainSlug,
      notes |-> noteSummaries,
      pendingNotes |-> pendingNotes,
      pendingArchives |-> pendingArchives,
      ready |-> (DOMAIN pendingNotes = {}) /\ (pendingArchives = {})]

(* ------------------------------ commit gate ---------------------------- *)
\* the gate without its last check (line 261 dropped)
assertReadyNoMainCheck(session) ==
  IF DOMAIN session.pendingNotes # {} THEN "Cannot commit: missing linked notes"
  ELSE IF \E id \in DOMAIN session.archives : ~session.archives[id].resolved
       THEN "Cannot commit: missing archive uploads"
  ELSE "ready"

assertReady(session) ==
  IF DOMAIN session.pendingNotes # {} THEN "Cannot commit: missing linked notes"
  ELSE IF \E id \in DOMAIN session.archives : ~session.archives[id].resolved
       THEN "Cannot commit: missing archive uploads"
  ELSE IF session.mainSlug = Null THEN "No main note uploaded"
  ELSE "ready"

(* ------------------------------- state --------------------------------- *)
VARIABLES
  sessionFile,   \* uploads/sessions/<id>/session.json, per session id
  noteFiles,     \* uploads/sessions/<id>/notes/<slug>.md: the slugs present
  archiveFiles,  \* uploads/sessions/<id>/archives/<archiveId>-<filename>
  posts,         \* the folders of posts/
  usedIds,       \* the ids randomId has handed to createSession
  last,          \* the last request and what it returned or threw
  flight         \* per worker, the request it has in flight between two awaits

vars == <<sessionFile, noteFiles, archiveFiles, posts, usedIds, last, flight>>

\* every session kept in one directory, whatever its id
sessionPathShared(id) == 1

\* sessionPath, line 103: the directory of a session is named by its id
sessionPath(id) == id

\* loadSession, lines 116-124: the content of session.json, NoSession when
\* the read ends in ENOENT
loadSession(id) == sessionFile[sessionPath(id)]

\* saveSession, lines 126-128: session.json after the write
saveSession(id, session) == [sessionFile EXCEPT ![sessionPath(id)] = session]

\* A front-matter slug is used as it is written (line 76 is skipped), so it
\* may hold '..' segments: the slug TraversalBase * d + s is
\* "../../<d>/notes/<s>".
TraversalBase == 1000

\* notePath, line 137: path.join resolves the '..' segments of the slug
notePath(sessionId, slug) ==
  IF slug > TraversalBase
  THEN [dir |-> sessionPath(slug \div TraversalBase), name |-> slug % TraversalBase]
  ELSE [dir |-> sessionPath(sessionId), name |-> slug]

\* lines 185-186: the notes directories after the raw note is written
writeNote(sessionId, slug) ==
  [noteFiles EXCEPT ![notePath(sessionId, slug).dir] = @ \cup {notePath(sessionId, slug).name}]

Folders == [date : Dates, slug : AllSlugs, n : 0..MaxSuffix]

\* the title of a note whose slug was not derived from a title
NotDerived == 0 - 1

\* the request (op, sid and, for addNote, isMain and the links extracted at
\* lines 188-189; for addArchive, sourceUrl) and its outcome (status: "ok" or
\* the message of the error thrown; slug: the slug parsed at line 183;
\* title: the title line 76 derived that slug from, NotDerived when the front
\* matter set the slug; links: the <<targetTitle, targetSlug>> pairs of line 88;
\* summary: the Status Summary returned; folders: what commit returned;
\* raced: the handler loaded the session while another handler that had loaded
\* the same session had not saved it yet, or the other way round; saved: the
\* session the handler gave to saveSession, NoSession when it gave none)
Result(op, sid, status, slug, summary, folders) ==
  [op |-> op, sid |-> sid, status |-> status, slug |-> slug,
   summary |-> summary, folders |-> folders,
   isMain |-> FALSE, title |-> NotDerived, links |-> {}, targets |-> {}, urls |-> {},
   raced |-> FALSE, saved |-> NoSession]

NoteResult(sid, status, parsed, summary, isMain, wikiLinks, externalLinks) ==
  [Result("addNote", sid, status, parsed.slug, summary, {}) EXCEPT
     !.isMain = isMain,
     !.title = IF parsed.derived THEN parsed.title ELSE NotDerived,
     !.links = {<<wikiLinks[i].targetTitle, wikiLinks[i].targetSlug>> : i \in DOMAIN wikiLinks},
     !.targets = {wikiLinks[i].targetSlug : i \in DOMAIN wikiLinks},
     !.urls = Range(externalLinks)]

ArchiveResult(sid, status, summary, sourceUrl) ==
  [Result("addArchive", sid, status, Null, summary, {}) EXCEPT !.urls = {sourceUrl}]

\* Every handler is an async function: between two of its awaits other
\* requests are served.  A worker is a request being served; flight[w] holds
\* the local variables of its handler and pc, the await it has reached.
Workers == 1..MaxWorkers

NoParsed == [title |-> Null, date |-> Null, slug |-> Null, derived |-> FALSE, body |-> <<>>]

Idle ==
  [pc |-> "idle", op |-> "none", sid |-> Null, isMain |-> FALSE, session |-> NoSession,
   existingCache |-> {}, parsed |-> NoParsed, wikiLinks |-> <<>>, externalLinks |-> <<>>,
   sourceUrl |-> Null, filename |-> Null, raced |-> FALSE]

Init ==
  /\ sessionFile = [id \in SessionIds |-> NoSession]
  /\ noteFiles = [id \in SessionIds |-> {}]
  /\ archiveFiles = [id \in SessionIds |-> {}]
  /\ posts = {}
  /\ usedIds = {}
  /\ last = Result("none", Null, "ok", Null, NoSummary, {})
  /\ flight = [w \in Workers |-> Idle]

(* ----------------------------- request inputs -------------------------- *)
NoFilename == 0 - 1

NoContent == [empty |-> TRUE]

Links == [wiki : Titles, url : {Null}] \cup [wiki : {Null}, url : Urls]

Bodies == SeqsUpTo(Links, MaxLinks)

\* front matter with a title and a body with links, or with neither (the
\* title is then taken from the filename)
TitledContents ==
  [empty : {FALSE}, title : Titles, slug : {Null}, date : {Null}, body : Bodies]
    \cup [empty : {FALSE}, title : {Null}, slug : {Null}, date : {Null}, body : {<<>>}]

\* front matter that sets the slug and the date itself
SluggedContents ==
  [empty : {FALSE}, title : {Null}, slug : Slugs, date : Dates,
   body : {<<>>}]

\* a note titled 1 whose body links to [[2]] and then to URL 1
LinkedNote ==
  [empty |-> FALSE, title |-> 1, slug |-> Null, date |-> Null,
   body |-> <<[wiki |-> 2, url |-> Null], [wiki |-> Null, url |-> 1]>>]

NoteContents == TitledContents \cup SluggedContents \cup {LinkedNote}

\* requests that fail the check of line 179
InvalidNoteRequests ==
  [filename : {NoFilename}, content : SluggedContents]
    \cup [filename : {1}, content : {NoContent}]

NoteRequests ==
  [filename : {1}, content : NoteContents]
    \cup [filename : {0}, content : {c \in TitledContents : c.title = Null}]
    \cup InvalidNoteRequests

\* For an id without a session every request that passes line 179 ends in
\* 'Session not found' whatever it holds: one of them is sent, next to the
\* invalid ones.
NoteRequestsFor(sid) ==
  IF loadSession(sid).exists THEN NoteRequests
  ELSE InvalidNoteRequests \cup {[filename |-> 1, content |-> LinkedNote]}

ArchiveRequests == [sourceUrl : {Null} \cup Urls, filename : {Null} \cup Filenames, data : BOOLEAN]

(* ------------------------------ operations ----------------------------- *)
\* createSession, lines 130-135.  randomId is 64 random bits: an id is
\* never handed out twice.
createSession(id) ==
  /\ id \notin usedIds
  /\ usedIds' = usedIds \cup {id}
  /\ sessionFile' = saveSession(id, defaultSession)
  /\ last' = Result("createSession", id, "ok", Null, NoSummary, {})
  /\ UNCHANGED <<noteFiles, archiveFiles, posts>>

CreateSession ==
  \E id \in SessionIds :
    Cardinality(usedIds) < MaxSessions /\ createSession(id) /\ UNCHANGED flight

\* the session after lines 193-207 of addNote
registerNote(session, parsed, isMain, wikiLinks, externalLinks, existingCache) ==
  LET slug == parsed.slug
      note == [slug |-> slug, title |-> parsed.title, date |-> parsed.date,
               isMain |-> isMain, depNotes |-> EmptyMap, depArchives |-> {}]
      s1 == [session EXCEPT !.notes = Put(@, slug, note)]
      s2 == IF isMain THEN [s1 EXCEPT !.mainSlug = slug] ELSE s1
      s3 == [s2 EXCEPT !.pendingNotes = Delete(@, slug)]
  IN updateNoteDependencies(s3, slug, wikiLinks, externalLinks, existingCache)

\* lines 182-189: what parseMarkdown and the two extractors can return for a
\* request, one record per outcome of the clock (now) and of the random ids
\* drawn by slugFromTitle (rnd for the note, rnds[i] for the i-th link)
parsesOf(req) ==
  LET c == req.content
      needsNow == c.date = Null
      needsRnd == c.slug = Null /\ slugize(IF c.title # Null THEN c.title ELSE baseName(req.filename)) = Null
      draws == {r \in [DOMAIN c.body -> RandomSlugs \cup {Null}] :
                  \A i \in DOMAIN c.body :
                    (r[i] = Null) <=> (c.body[i].url # Null \/ slugize(c.body[i].wiki) # Null)}
  IN {[parsed |-> parseMarkdown(c, req.filename, now, rnd),
       wikiLinks |-> extractWikiLinks(c.body, rnds),
       externalLinks |-> extractExternalLinks(c.body)] :
        now \in (IF needsNow THEN Dates ELSE {Null}),
        rnd \in (IF needsRnd THEN RandomSlugs ELSE {Null}),
        rnds \in draws}

\* addNote, lines 178-211
AddNote(sid, req, isMain) ==
  IF req.filename = NoFilename \/ req.content = NoContent
  THEN /\ last' = Result("addNote", sid, "Filename and content required", Null, NoSummary, {})
       /\ UNCHANGED <<sessionFile, noteFiles, archiveFiles, posts, usedIds>>
  ELSE IF ~loadSession(sid).exists
  THEN /\ last' = Result("addNote", sid, "Session not found", Null, NoSummary, {})
       /\ UNCHANGED <<sessionFile, noteFiles, archiveFiles, posts, usedIds>>
  ELSE
    \E p \in parsesOf(req) :
      LET existingCache == buildExistingCache(posts)
          parsed == p.parsed
          slug == parsed.slug
          wikiLinks == p.wikiLinks
          externalLinks == p.externalLinks
      IN /\ TRUE
         \* line 186: the raw note is written before anything else
         /\ noteFiles' = writeNote(sid, slug)
         /\ IF ~normalizeTagsBound
            THEN \* line 191 throws; the session is neither changed nor saved
                 /\ last' = NoteResult(sid, "ReferenceError", parsed, NoSummary,
                                       isMain, wikiLinks, externalLinks)
                 /\ UNCHANGED sessionFile
            ELSE LET session == registerNote(loadSession(sid), parsed, isMain,
                                             wikiLinks, externalLinks, existingCache)
                 IN /\ sessionFile' = saveSession(sid, session)
                    /\ last' = [NoteResult(sid, "ok", parsed,
                                           summarizeSession(session, buildExistingCache(posts)),
                                           isMain, wikiLinks, externalLinks)
                                  EXCEPT !.saved = session]
         /\ UNCHANGED <<archiveFiles, posts, usedIds>>

\* the check of line 217 dropped: any upload is taken
archiveRequestedAlways(session, archiveId) == TRUE

\* line 217: session.archives[archiveId] is set
archiveRequested(session, archiveId) == archiveId \in DOMAIN session.archives

\* the session after lines 224-226 of addArchive
resolveArchive(session, archiveId, filename) ==
  LET old == IF archiveId \in DOMAIN session.archives
             THEN session.archives[archiveId]
             ELSE [url |-> Null, referencedBy |-> <<>>]
  IN [session EXCEPT !.archives =
        Put(@, archiveId, [url |-> old.url, resolved |-> TRUE, filename |-> filename,
                           referencedBy |-> old.referencedBy])]

\* addArchive, lines 213-229
AddArchive(sid, req) ==
  IF req.sourceUrl = Null \/ req.filename = Null \/ ~req.data
  THEN /\ last' = Result("addArchive", sid, "Archive upload requires url, filename and data",
                         Null, NoSummary, {})
       /\ UNCHANGED <<sessionFile, noteFiles, archiveFiles, posts, usedIds>>
  ELSE IF ~loadSession(sid).exists
  THEN /\ last' = Result("addArchive", sid, "Session not found", Null, NoSummary, {})
       /\ UNCHANGED <<sessionFile, noteFiles, archiveFiles, posts, usedIds>>
  ELSE
    LET session == loadSession(sid)
        archiveId == archiveIdFromUrl(req.sourceUrl)
    IN
    IF ~archiveRequested(session, archiveId)
    THEN /\ last' = ArchiveResult(sid, "Archive was not requested", NoSummary, req.sourceUrl)
         /\ UNCHANGED <<sessionFile, noteFiles, archiveFiles, posts, usedIds>>
    ELSE
      LET s1 == resolveArchive(session, archiveId, req.filename)
      IN /\ archiveFiles' = [archiveFiles EXCEPT ![sessionPath(sid)] = @ \cup {<<archiveId, req.filename>>}]
         /\ sessionFile' = saveSession(sid, s1)
         /\ last' = [ArchiveResult(sid, "ok", summarizeSession(s1, buildExistingCache(posts)),
                                   req.sourceUrl)
                        EXCEPT !.saved = s1]
         /\ UNCHANGED <<noteFiles, posts, usedIds>>

\* a getSession that creates the session it does not find
GetSessionCreating(sid) ==
  LET session == IF loadSession(sid).exists THEN loadSession(sid) ELSE defaultSession
  IN /\ last' = Result("getSession", sid, "ok", Null,
                       summarizeSession(session, buildExistingCache(posts)), {})
     /\ sessionFile' = saveSession(sid, session)
     /\ UNCHANGED <<noteFiles, archiveFiles, posts, usedIds>>

\* getSession, line 253
GetSession(sid) ==
  /\ IF ~loadSession(sid).exists
     THEN last' = Result("getSession", sid, "Session not found", Null, NoSummary, {})
     ELSE last' = Result("getSession", sid, "ok", Null,
                         summarizeSession(loadSession(sid), buildExistingCache(posts)), {})
  /\ UNCHANGED <<sessionFile, noteFiles, archiveFiles, posts, usedIds>>

\* line 336: the session directory is removed with all its files
removeSessionDir(sid) ==
  /\ sessionFile' = [sessionFile EXCEPT ![sessionPath(sid)] = NoSession]
  /\ noteFiles' = [noteFiles EXCEPT ![sessionPath(sid)] = {}]
  /\ archiveFiles' = [archiveFiles EXCEPT ![sessionPath(sid)] = {}]

\* a commit that clears the session directory before it reports the error
commitRefusedAfterCleanup(sid, error) ==
  /\ last' = Result("commitSession", sid, error, Null, NoSummary, {})
  /\ removeSessionDir(sid)
  /\ UNCHANGED <<posts, usedIds>>

\* lines 298-299: the error thrown by assertReady leaves commitSession before
\* line 300; nothing has been written or removed
commitRefused(sid, error) ==
  /\ last' = Result("commitSession", sid, error, Null, NoSummary, {})
  /\ UNCHANGED <<sessionFile, noteFiles, archiveFiles, posts, usedIds>>

\* lines 300-337: commitSession once the loaded session has passed assertReady
commitNotes(sid, session) ==
  LET folderMap == [s \in DOMAIN session.notes |->
                      folderFromDateSlug(session.notes[s].date, s)]
  IN
  IF DOMAIN session.notes # {} /\ ~normalizeTagsBound
  THEN \* the first note of the loop: its folder is made (line 312), its
       \* archives are copied, then line 330 throws before index.md is written
       \E first \in DOMAIN session.notes :
         /\ posts' = posts \cup {folderMap[first]}
         /\ last' = Result("commitSession", sid, "ReferenceError", Null, NoSummary, {})
         /\ UNCHANGED <<sessionFile, noteFiles, archiveFiles, usedIds>>
  ELSE /\ posts' = posts \cup {folderMap[s] : s \in DOMAIN session.notes}
       /\ removeSessionDir(sid)
       /\ last' = Result("commitSession", sid, "ok", Null, NoSummary,
                         {folderMap[s] : s \in DOMAIN session.notes})
       /\ UNCHANGED usedIds

\* commitSession, lines 297-338
CommitSession(sid) ==
  IF ~loadSession(sid).exists
  THEN /\ last' = Result("commitSession", sid, "Session not found", Null, NoSummary, {})
       /\ UNCHANGED <<sessionFile, noteFiles, archiveFiles, posts, usedIds>>
  ELSE IF assertReady(loadSession(sid)) # "ready"
  THEN commitRefused(sid, assertReady(loadSession(sid)))
  ELSE commitNotes(sid, loadSession(sid))

(* ------------------------ the separate CRUD path ----------------------- *)
\* toSlug of server.js, for a title with word characters
toSlug(title) == slugize(title)

\* handleCreatePost, server.js lines 191-213: the first free folder name among
\* base, base-1, base-2, ...
CreatePost(title, date) ==
  LET slug == toSlug(title)
      taken == {k \in 0..MaxSuffix : [date |-> date, slug |-> slug, n |-> k] \in posts}
      free == (0..MaxSuffix) \ taken
  IN /\ free # {}
     /\ \E k \in free :
          /\ \A j \in free : k <= j
          /\ (0..(k - 1)) \subseteq taken
          /\ posts' = posts \cup {[date |-> date, slug |-> slug, n |-> k]}
     /\ last' = Result("createPost", Null, "ok", slug, NoSummary, {})
     /\ UNCHANGED <<sessionFile, noteFiles, archiveFiles, usedIds>>

\* handleDeletePost, server.js lines 320-327
DeletePost(folder) ==
  /\ folder \in posts
  /\ posts' = posts \ {folder}
  /\ last' = Result("deletePost", Null, "ok", folder.slug, NoSummary, {})
  /\ UNCHANGED <<sessionFile, noteFiles, archiveFiles, usedIds>>

(* ------------------- the handlers, await by await ---------------------- *)
\* the handlers that load a session, change their copy and save it
SavingOps == {"addNote", "addArchive"}

\* the awaits of such a handler that come before its saveSession has written
Unsaved == {"cache", "write", "save"}

\* the other workers that hold a copy of session sid they have yet to save
rivals(w, sid) ==
  {v \in Workers \ {w} :
     flight[v].op \in SavingOps /\ flight[v].pc \in Unsaved /\ flight[v].sid = sid}

\* flight once worker w has loaded session sid in a saving handler: w and its
\* rivals have each loaded before the other saved
marked(w, sid) ==
  [v \in Workers |->
     IF v \in rivals(w, sid) THEN [flight[v] EXCEPT !.raced = TRUE] ELSE flight[v]]

enter(w, f) ==
  [marked(w, f.sid) EXCEPT ![w] = [f EXCEPT !.raced = rivals(w, f.sid) # {}]]

\* addNote from the call to the end of await loadSession (lines 178-180).
\* parseMarkdown and the extractors (lines 182-189) read nothing but the
\* request, the clock and the random source: their outcome is fixed here.
StartAddNote(w, sid, req, isMain) ==
  /\ flight[w].pc = "idle"
  /\ IF req.filename = NoFilename \/ req.content = NoContent
     THEN /\ last' = Result("addNote", sid, "Filename and content required", Null, NoSummary, {})
          /\ UNCHANGED flight
     ELSE IF ~loadSession(sid).exists
     THEN /\ last' = Result("addNote", sid, "Session not found", Null, NoSummary, {})
          /\ UNCHANGED flight
     ELSE \E p \in parsesOf(req) :
            /\ flight' = enter(w, [Idle EXCEPT !.pc = "cache", !.op = "addNote", !.sid = sid,
                                               !.isMain = isMain,
                                               !.session = loadSession(sid),
                                               !.parsed = p.parsed,
                                               !.wikiLinks = p.wikiLinks,
                                               !.externalLinks = p.externalLinks])
            /\ UNCHANGED last
  /\ UNCHANGED <<sessionFile, noteFiles, archiveFiles, posts, usedIds>>

\* addArchive from the call to the end of await loadSession and the check
\* that follows it (lines 213-219)
StartAddArchive(w, sid, req) ==
  /\ flight[w].pc = "idle"
  /\ IF req.sourceUrl = Null \/ req.filename = Null \/ ~req.data
     THEN /\ last' = Result("addArchive", sid, "Archive upload requires url, filename and data",
                            Null, NoSummary, {})
          /\ UNCHANGED flight
     ELSE IF ~loadSession(sid).exists
     THEN /\ last' = Result("addArchive", sid, "Session not found", Null, NoSummary, {})
          /\ UNCHANGED flight
     ELSE IF ~archiveRequested(loadSession(sid), archiveIdFromUrl(req.sourceUrl))
     THEN /\ last' = [ArchiveResult(sid, "Archive was not requested", NoSummary, req.sourceUrl)
                        EXCEPT !.raced = rivals(w, sid) # {}]
          /\ flight' = marked(w, sid)
     ELSE /\ flight' = enter(w, [Idle EXCEPT !.pc = "write", !.op = "addArchive", !.sid = sid,
                                             !.session = loadSession(sid),
                                             !.sourceUrl = req.sourceUrl,
                                             !.filename = req.filename])
          /\ UNCHANGED last
  /\ UNCHANGED <<sessionFile, noteFiles, archiveFiles, posts, usedIds>>

\* getSession up to the end of await loadSession (line 253)
StartGetSession(w, sid) ==
  /\ flight[w].pc = "idle"
  /\ IF ~loadSession(sid).exists
     THEN /\ last' = Result("getSession", sid, "Session not found", Null, NoSummary, {})
          /\ UNCHANGED flight
     ELSE /\ flight' = [flight EXCEPT ![w] = [Idle EXCEPT !.pc = "summarize", !.op = "getSession",
                                                         !.sid = sid,
                                                         !.session = loadSession(sid)]]
          /\ UNCHANGED last
  /\ UNCHANGED <<sessionFile, noteFiles, archiveFiles, posts, usedIds>>

\* commitSession up to assertReady (lines 297-299)
StartCommitSession(w, sid) ==
  /\ flight[w].pc = "idle"
  /\ IF ~loadSession(sid).exists
     THEN /\ last' = Result("commitSession", sid, "Session not found", Null, NoSummary, {})
          /\ UNCHANGED <<sessionFile, noteFiles, archiveFiles, posts, usedIds, flight>>
     ELSE IF assertReady(loadSession(sid)) # "ready"
     THEN commitRefused(sid, assertReady(loadSession(sid))) /\ UNCHANGED flight
     ELSE /\ flight' = [flight EXCEPT ![w] = [Idle EXCEPT !.pc = "commit", !.op = "commitSession",
                                                         !.sid = sid,
                                                         !.session = loadSession(sid)]]
          /\ UNCHANGED <<sessionFile, noteFiles, archiveFiles, posts, usedIds, last>>

\* what the handler of worker w returns at its last await, line 210, 228 or 253
returned(f, summary) ==
  IF f.op = "addNote"
  THEN [NoteResult(f.sid, "ok", f.parsed, summary, f.isMain, f.wikiLinks, f.externalLinks)
          EXCEPT !.raced = f.raced, !.saved = f.session]
  ELSE IF f.op = "addArchive"
  THEN [ArchiveResult(f.sid, "ok", summary, f.sourceUrl)
          EXCEPT !.raced = f.raced, !.saved = f.session]
  ELSE Result("getSession", f.sid, "ok", Null, summary, {})

\* the handler of worker w runs from the await it waits at to its next one:
\*   cache      addNote line 181, buildExistingCache
\*   write      addNote lines 185-186, then lines 188-207 up to the next await;
\*              addArchive lines 222-223, then lines 224-226
\*   save       saveSession, line 209 or 227
\*   summarize  summarizeSession, line 210, 228 or 253
\*   commit     commitSession from line 300 on (its loop is taken as one step)
Step(w) ==
  LET f == flight[w] IN
  /\ f.pc # "idle"
  /\ IF f.pc = "cache"
     THEN /\ flight' = [flight EXCEPT ![w] = [f EXCEPT !.pc = "write",
                                                      !.existingCache = buildExistingCache(posts)]]
          /\ UNCHANGED <<sessionFile, noteFiles, archiveFiles, posts, usedIds, last>>
     ELSE IF f.pc = "write" /\ f.op = "addNote"
     THEN /\ noteFiles' = writeNote(f.sid, f.parsed.slug)
          /\ IF ~normalizeTagsBound
             THEN \* line 191 throws
                  /\ last' = [NoteResult(f.sid, "ReferenceError", f.parsed, NoSummary,
                                         f.isMain, f.wikiLinks, f.externalLinks)
                                EXCEPT !.raced = f.raced]
                  /\ flight' = [flight EXCEPT ![w] = Idle]
             ELSE /\ flight' = [flight EXCEPT ![w] =
                                  [f EXCEPT !.pc = "save",
                                            !.session = registerNote(f.session, f.parsed, f.isMain,
                                                                     f.wikiLinks, f.externalLinks,
                                                                     f.existingCache)]]
                  /\ UNCHANGED last
          /\ UNCHANGED <<sessionFile, archiveFiles, posts, usedIds>>
     ELSE IF f.pc = "write"
     THEN /\ archiveFiles' = [archiveFiles EXCEPT ![sessionPath(f.sid)] =
                                @ \cup {<<archiveIdFromUrl(f.sourceUrl), f.filename>>}]
          /\ flight' = [flight EXCEPT ![w] =
                          [f EXCEPT !.pc = "save",
                                    !.session = resolveArchive(f.session,
                                                               archiveIdFromUrl(f.sourceUrl),
                                                               f.filename)]]
          /\ UNCHANGED <<sessionFile, noteFiles, posts, usedIds, last>>
     ELSE IF f.pc = "save"
     THEN /\ sessionFile' = saveSession(f.sid, f.session)
          /\ flight' = [flight EXCEPT ![w] = [f EXCEPT !.pc = "summarize"]]
          /\ UNCHANGED <<noteFiles, archiveFiles, posts, usedIds, last>>
     ELSE IF f.pc = "summarize"
     THEN /\ last' = returned(f, summarizeSession(f.session, buildExistingCache(posts)))
          /\ flight' = [flight EXCEPT ![w] = Idle]
          /\ UNCHANGED <<sessionFile, noteFiles, archiveFiles, posts, usedIds>>
     ELSE /\ commitNotes(f.sid, f.session)
          /\ flight' = [flight EXCEPT ![w] = Idle]

(* --------------------------- the specification ------------------------- *)
\* In Spec every request is served from its first line to its last without
\* another one in between: no handler is ever left in flight.
DoAddNote ==
  \E sid \in SessionIds :
    \E req \in NoteRequestsFor(sid), isMain \in BOOLEAN :
      AddNote(sid, req, isMain) /\ UNCHANGED flight

DoAddArchive ==
  \E sid \in SessionIds, req \in ArchiveRequests : AddArchive(sid, req) /\ UNCHANGED flight

DoGetSession == \E sid \in SessionIds : GetSession(sid) /\ UNCHANGED flight

DoCommitSession == \E sid \in SessionIds : CommitSession(sid) /\ UNCHANGED flight

DoCreatePost ==
  \E title \in Titles \ {BareTitle}, date \in Dates : CreatePost(title, date) /\ UNCHANGED flight

DoDeletePost == \E folder \in Folders : DeletePost(folder) /\ UNCHANGED flight

Next ==
  \/ CreateSession
  \/ DoAddNote
  \/ DoAddArchive
  \/ DoGetSession
  \/ DoCommitSession
  \/ DoCreatePost
  \/ DoDeletePost

Spec == Init /\ [][Next]_vars

(* ------------------ the specification with interleaving ---------------- *)
\* a note whose front matter sets the slug "../../<dir>/notes/1"
StrayNote(dir) ==
  [empty |-> FALSE, title |-> Null, slug |-> TraversalBase * dir + 1, date |-> 1, body |-> <<>>]

\* the requests sent for session sid: the main note LinkedNote, a stray note
\* aimed at the directory of another session, and an invalid request
AsyncNoteRequests(sid) ==
  [filename : {1},
   content : {LinkedNote, NoContent} \cup {StrayNote(dir) : dir \in SessionIds \ {sid}}]

AsyncArchiveRequests == [sourceUrl : {1}, filename : {Null} \cup Filenames, data : {TRUE}]

CreateAnySession == \E id \in SessionIds : createSession(id) /\ UNCHANGED flight

DoStartAddNote ==
  \E w \in Workers, sid \in SessionIds :
    \E req \in AsyncNoteRequests(sid) : StartAddNote(w, sid, req, TRUE)

DoStartAddArchive ==
  \E w \in Workers, sid \in SessionIds, req \in AsyncArchiveRequests : StartAddArchive(w, sid, req)

DoStartGetSession == \E w \in Workers, sid \in SessionIds : StartGetSession(w, sid)

DoStartCommitSession == \E w \in Workers, sid \in SessionIds : StartCommitSession(w, sid)

DoStep == \E w \in Workers : Step(w)

PublishPost == \E date \in Dates : CreatePost(1, date) /\ UNCHANGED flight

AsyncNext ==
  \/ CreateAnySession
  \/ DoStartAddNote
  \/ DoStartAddArchive
  \/ DoStartGetSession
  \/ DoStartCommitSession
  \/ DoStep
  \/ PublishPost
  \/ DoDeletePost

SpecAsync == Init /\ [][AsyncNext]_vars

(* ================================ claims ================================ *)
SummaryOps == {"addNote", "addArchive", "getSession"}

PreconditionErrors ==
  {"Cannot commit: missing linked notes", "Cannot commit: missing archive uploads",
   "No main note uploaded"}

\* the request passed validation and found its session: the handler ran on
\* the loaded session
RanOnSession(r) ==
  r.status \notin {"Filename and content required",
                   "Archive upload requires url, filename and data",
                   "Session not found"}

\* pendingNotes is empty, every Archive is resolved and mainSlug is set
CommitEligible(session) ==
  /\ DOMAIN session.pendingNotes = {}
  /\ \A id \in DOMAIN session.archives : session.archives[id].resolved
  /\ session.mainSlug # Null

\* C1: a commitSession on an existing session fails with a precondition error
\* whenever the loaded session has pending notes, an unresolved archive or no
\* mainSlug, and succeeds in every other state.
C1_ReadinessGating ==
  [][\A sid \in SessionIds :
       (sessionFile[sid].exists /\ last'.op = "commitSession" /\ last'.sid = sid
          /\ CommitSession(sid))
       => IF CommitEligible(sessionFile[sid])
          THEN last'.status = "ok"
          ELSE last'.status \in PreconditionErrors /\ sessionFile' = sessionFile]_vars

\* C1 witness: a commit of an existing session without a main note was refused
C1_Witness ==
  /\ last.op = "commitSession"
  /\ last.status = "No main note uploaded"
  /\ sessionFile[last.sid].exists
  /\ sessionFile[last.sid].mainSlug = Null

\* C2: the ready flag of every returned Status Summary is true exactly when the
\* session is commit-eligible (no pending notes, all archives resolved, mainSlug
\* set).
C2_ReadyIffCommitEligible ==
  (last.op \in SummaryOps /\ last.status = "ok")
  => (last.summary.ready <=> CommitEligible(sessionFile[last.sid]))

\* C3: when a summary reports ready, a commitSession issued next on that session
\* succeeds.
C3_ReadyThenCommitSucceeds ==
  [][(last.op \in SummaryOps /\ last.status = "ok" /\ last.summary.ready
        /\ last'.op = "commitSession" /\ last'.sid = last.sid)
     => last'.status = "ok"]_vars

\* C5: addNote with a non-empty filename and content on an existing session
\* completes successfully, the persisted session holds the Note under the parsed
\* slug, and mainSlug is that slug when isMain is truthy.
C5_AddNoteRegisters ==
  (last.op = "addNote" /\ RanOnSession(last))
  => /\ last.status = "ok"
     /\ sessionFile[last.sid].exists
     /\ last.slug \in DOMAIN sessionFile[last.sid].notes
     /\ last.isMain => sessionFile[last.sid].mainSlug = last.slug

\* C6: when a note A with a wiki-link to B is added while B is neither a session
\* note nor a published post, the returned summary lists B in pendingNotes with A
\* in referencedBy, and B in A's missingNotes.
C6_ForwardReferencePending ==
  (last.op = "addNote" /\ RanOnSession(last))
  => \A b \in last.targets :
       (b \notin DOMAIN sessionFile[last.sid].notes /\ b \notin buildExistingCache(posts))
       => /\ last.status = "ok"
          /\ b \in DOMAIN last.summary.pendingNotes
          /\ last.slug \in Range(last.summary.pendingNotes[b].referencedBy)
          /\ last.slug \in DOMAIN last.summary.notes
          /\ b \in last.summary.notes[last.slug].missingNotes

\* C7: supplying the referenced item (a note, or the archive of a URL) completes
\* without error whether it comes before or after the referencing note.
C7_EitherOrderCompletes ==
  (last.op \in {"addNote", "addArchive"} /\ RanOnSession(last))
  => last.status = "ok"

\* C8: after a note that links to a URL is added, the session holds the Archive
\* entry of that URL's id, and the entry's referencedBy contains the note's slug.
C8_ArchiveSharedByReferrers ==
  (last.op = "addNote" /\ RanOnSession(last))
  => \A u \in last.urls :
       /\ archiveIdFromUrl(u) \in DOMAIN sessionFile[last.sid].archives
       /\ last.slug \in Range(sessionFile[last.sid].archives[archiveIdFromUrl(u)].referencedBy)

\* C9: addArchive for a URL whose id has no entry in session.archives fails with
\* 'Archive was not requested' and leaves the persisted session and the stored
\* files as they were.
C9_UnrequestedArchiveRejected ==
  [][\A sid \in SessionIds, req \in ArchiveRequests :
       (/\ req.sourceUrl # Null /\ req.filename # Null /\ req.data
        /\ sessionFile[sid].exists
        /\ archiveIdFromUrl(req.sourceUrl) \notin DOMAIN sessionFile[sid].archives
        /\ last'.op = "addArchive"
        /\ AddArchive(sid, req))
       => /\ last'.status = "Archive was not requested"
          /\ UNCHANGED <<sessionFile, noteFiles, archiveFiles, posts>>]_vars

\* C9 witness: an upload for an existing session was refused as not requested
C9_Witness ==
  /\ last.op = "addArchive"
  /\ last.status = "Archive was not requested"
  /\ sessionFile[last.sid].exists
  /\ \A u \in last.urls : archiveIdFromUrl(u) \notin DOMAIN sessionFile[last.sid].archives

\* C15: getSession changes nothing: the persisted session, the session's stored
\* files and the published posts are the same after the call as before it, and
\* a second getSession issued right after the first on the same session returns
\* the same result.
C15_GetSessionPure ==
  [][\A sid \in SessionIds :
       (last'.op = "getSession" /\ last'.sid = sid /\ GetSession(sid))
       => /\ UNCHANGED <<sessionFile, noteFiles, archiveFiles, posts>>
          /\ (last.op = "getSession" /\ last.sid = sid) => last' = last]_vars

\* C15 witness: a summary was returned for a session that has stored files,
\* while posts are published
C15_Witness ==
  /\ last.op = "getSession"
  /\ last.status = "ok"
  /\ sessionFile[last.sid].exists
  /\ noteFiles[last.sid] # {}
  /\ posts # {}

C17_TraceAfterMainNote ==
  [][(/\ last.op = "createSession"
      /\ last'.op = "addNote" /\ last'.sid = last.sid /\ RanOnSession(last')
      /\ last'.isMain
      /\ Cardinality(last'.targets) = 1 /\ Cardinality(last'.urls) = 1
      /\ last'.slug \notin last'.targets
      /\ last'.targets \cap buildExistingCache(posts) = {})
     => /\ last'.status = "ok"
        /\ DOMAIN last'.summary.pendingNotes = last'.targets
        /\ \A b \in last'.targets :
             last'.summary.pendingNotes[b].referencedBy = <<last'.slug>>
        /\ last'.summary.pendingArchives = {archiveIdFromUrl(u) : u \in last'.urls}
        /\ ~last'.summary.ready]_vars

Taken(r) ==
  r.op \in SavingOps /\ RanOnSession(r) /\ r.status # "Archive was not requested"

\* C13: when two saving requests on one session, an addNote among them, have
\* each loaded the session before the other saved, then once both have returned
\* the persisted session is the one that one of the two gave to saveSession
\* (the save that landed last).
C13_LastSaveWins ==
  [][(/\ Taken(last) /\ Taken(last')
      /\ "addNote" \in {last.op, last'.op}
      /\ last.raced /\ last'.raced
      /\ last'.sid = last.sid
      /\ \E w \in Workers : flight[w].pc # "idle" /\ flight'[w].pc = "idle"
      /\ \A w \in Workers : flight'[w].pc = "idle")
     => sessionFile'[last'.sid] \in {last.saved, last'.saved}]_vars

\* a step of a request for session x
StepOf(x) ==
  \/ createSession(x) /\ UNCHANGED flight
  \/ \E w \in Workers :
       \/ flight[w].pc # "idle" /\ flight[w].sid = x /\ Step(w)
       \/ \E req \in AsyncNoteRequests(x) : StartAddNote(w, x, req, TRUE)
       \/ \E req \in AsyncArchiveRequests : StartAddArchive(w, x, req)
       \/ StartGetSession(w, x)
       \/ StartCommitSession(w, x)

====
